---- MODULE Spec2Model ----
(***************************************************************************)
(* Dirty-page tracking VFS (vfs_tracking.c / vfs_tracking.h).              *)
(*                                                                         *)
(* The state is the global registry g_state (files, pRealVfs,              *)
(* defaultPageSize), the heap cells that hold FileTracker structs, the     *)
(* registration of trackingVfs with the database engine, and the open      *)
(* TrackingFile handles.  One action per exported function and per VFS /   *)
(* file method.                                                            *)
(*                                                                         *)
(* Conventions                                                             *)
(*   - a char* is a sequence of one-character strings; the null char* is   *)
(*     the reserved value NULL_STR;                                        *)
(*   - a FileTracker* is a heap address in Addr, or NULL;                  *)
(*   - a uint32_t bitmap word is the set of its set bit positions (0..31); *)
(*     the bitmap is the sequence of its words, and the null bitmap        *)
(*     pointer is the empty sequence (realloc is never asked for 0 words); *)
(*   - strdup is taken to succeed; calloc, realloc and malloc may fail.    *)
(***************************************************************************)
EXTENDS Integers, Sequences, FiniteSets, Bags, TLC

----------------------------------------------------------------------------
(* Program constants *)

SQLITE_OK == 0
SQLITE_ERROR == 1
SQLITE_NOMEM == 7
SQLITE_NOTFOUND == 12
DEFAULT_PAGE_SIZE == 4096
\* bits in one uint32_t word of the bitmap
WORD_BITS == 32

(* Bounds of the model *)

\* heap cells available for FileTracker structs
MaxTrackers == 2
\* TrackingFile handles that can be open at once
MaxHandles == 2
\* a page size passed to vfs_tracking_init besides 0
SmallPageSize == 2048
\* a page (in default-size pages) far beyond the first bitmap word
FarPage == 33
\* a write length that crosses a page boundary when started 6 bytes before it
SpanLen == 20
\* calls made to the library and its methods in one run
MaxCalls == 6
\* calls made in one run that also passes the empty names
MaxEdgeCalls == 4
\* calls made in one run that also uses the forwarding methods
MaxDelegationCalls == 4
\* calls made in one run that also passes the variants of a file name
MaxVariantCalls == 3
\* calls made in one run that works on two files
MaxTwoFileCalls == 5

NULL == 0
NULL_STR == <<"NULL">>
NULL_VFS == "NULL"
FREED == [freed |-> TRUE]

Addr == 1..MaxTrackers

\* VFS names known to the engine before the decorator is registered
BaseVfsNames == {"memfs"}
\* names passed to vfs_tracking_init
InitNames == {"memfs", "nosuch"}
PageSizeArgs == {0, SmallPageSize}
\* results of sqlite3_vfs_register
RegisterRcs == {SQLITE_OK, SQLITE_NOMEM}
\* results of the real backend's methods
BackendRcs == {SQLITE_OK, SQLITE_ERROR}

\* file names passed to the exported functions and to xOpen
FileNames == {NULL_STR, <<"d">>, <<"/", "d">>}
\* the empty file name and the name that normalizes to it
EdgeNames == {<<>>, <<"/">>}
\* a file name and names that differ from it by leading separators, by case,
\* by a trailing separator and by a directory
VariantNames ==
    {<<"d">>, <<"/", "d">>, <<"/", "/", "d">>, <<"D">>, <<"d", "/">>,
     <<"a", "/", "d">>}
\* the names of two files
TwoFileNames == {<<"d">>, <<"e">>}
Offsets == {DEFAULT_PAGE_SIZE - 6, FarPage * DEFAULT_PAGE_SIZE}
Amounts == {0, SpanLen}

VARIABLES
    files,            \* g_state.files: the linked list, head first
    pRealVfs,         \* g_state.pRealVfs
    defaultPageSize,  \* g_state.defaultPageSize
    heap,             \* Addr -> FileTracker struct, or FREED
    pAppData,         \* trackingVfs.pAppData
    defaultVfs,       \* the engine's default VFS
    engineVfs,        \* a database connection holds trackingVfs
    openFiles,        \* the open TrackingFile structs, a bag
    crashed,          \* the process was aborted by an invalid access
    last,             \* the last call and what it returned
    written,          \* history: pages written per file name since its reset
    allocFailed,      \* history: some allocation has failed
    calls             \* history: the number of calls made so far

vars == <<files, pRealVfs, defaultPageSize, heap, pAppData, defaultVfs,
          engineVfs, openFiles, crashed, last, written, allocFailed, calls>>

NO_RC == 0 - 1
NoOut == [set |-> FALSE, count |-> 0, pages |-> <<>>]

\* a call of an exported function: what it returned and stored
Call(op, name, rc, out) ==
    [op |-> op, name |-> name, real |-> NO_RC, rc |-> rc, out |-> out]

\* a call of a method of the decorator: the result of the real method it
\* delegated to, and what it returned
MethodCall(op, name, real, rc) ==
    [op |-> op, name |-> name, real |-> real, rc |-> rc, out |-> NoOut]

----------------------------------------------------------------------------
(* vfs_tracking_get_file *)

\* a normalization that strips every leading slash
RECURSIVE NormalizeName_AllSlashes(_)
NormalizeName_AllSlashes(filename) ==
    IF Len(filename) > 0 /\ filename[1] = "/"
    THEN NormalizeName_AllSlashes(Tail(filename))
    ELSE filename

\* a lookup that compares the name as given
NormalizeName_AsGiven(filename) == filename

\* normalizedName = (filename[0] == '/') ? filename + 1 : filename
NormalizeName(filename) ==
    IF Len(filename) > 0 /\ filename[1] = "/" THEN Tail(filename) ELSE filename

\* the search loop over the linked list
RECURSIVE FindTracker(_, _, _)
FindTracker(list, hp, normalizedName) ==
    IF list = <<>> THEN NULL
    ELSE IF hp[Head(list)].filename = normalizedName THEN Head(list)
    ELSE FindTracker(Tail(list), hp, normalizedName)

\* what calloc(1, sizeof(FileTracker)) can return
CallocResults == {NULL} \cup {a \in Addr : heap[a] = FREED}

NewTracker(normalizedName) ==
    [filename |-> normalizedName,
     pageSize |-> defaultPageSize,
     totalPages |-> 0,
     bitmapSize |-> 0,
     dirtyBitmap |-> <<>>,
     isOpen |-> 0]

\* the pointer returned, with the list and the heap after the call;
\* cell is calloc's result
vfs_tracking_get_file(filename, cell) ==
    IF filename = NULL_STR
    THEN [ptr |-> NULL, files |-> files, heap |-> heap]
    ELSE LET normalizedName == NormalizeName(filename)
             pFile == FindTracker(files, heap, normalizedName)
         IN  IF pFile # NULL
             THEN [ptr |-> pFile, files |-> files, heap |-> heap]
             ELSE IF cell = NULL
             THEN [ptr |-> NULL, files |-> files, heap |-> heap]
             ELSE [ptr |-> cell,
                   files |-> <<cell>> \o files,
                   heap |-> [heap EXCEPT ![cell] = NewTracker(normalizedName)]]

----------------------------------------------------------------------------
(* vfs_tracking_mark_dirty *)

\* a marking loop that flips the bit of each page
RECURSIVE MarkPages_Toggle(_, _, _)
MarkPages_Toggle(bitmap, i, endPage) ==
    IF i > endPage THEN bitmap
    ELSE MarkPages_Toggle(
             [bitmap EXCEPT ![(i \div WORD_BITS) + 1] =
                 IF (i % WORD_BITS) \in @ THEN @ \ {i % WORD_BITS}
                 ELSE @ \cup {i % WORD_BITS}],
             i + 1, endPage)

\* a marking loop that starts at the first page of the file
RECURSIVE MarkPages_FromZero(_, _, _)
MarkPages_FromZero(bitmap, i, endPage) ==
    IF endPage < 0 THEN bitmap
    ELSE MarkPages_FromZero(
             [bitmap EXCEPT ![(endPage \div WORD_BITS) + 1] = @ \cup {endPage % WORD_BITS}],
             i, endPage - 1)

\* the marking loop: dirtyBitmap[i / 32] |= (1U << (i % 32))
RECURSIVE MarkPages(_, _, _)
MarkPages(bitmap, i, endPage) ==
    IF i > endPage THEN bitmap
    ELSE MarkPages([bitmap EXCEPT ![(i \div WORD_BITS) + 1] = @ \cup {i % WORD_BITS}],
                   i + 1, endPage)

\* new words that keep what the storage held: here, their top bit
ZeroWords_Garbage(n) == [k \in 1..n |-> {WORD_BITS - 1}]

\* memset of the new portion
ZeroWords(n) == [k \in 1..n |-> {}]

\* a growth that hands back fresh zeroed storage, losing the old words
GrowBitmap_Fresh(t, newBitmapSize) ==
    [t EXCEPT !.dirtyBitmap = ZeroWords(newBitmapSize),
              !.bitmapSize = newBitmapSize]

\* realloc keeps the old words; the new portion is zeroed
GrowBitmap(t, newBitmapSize) ==
    [t EXCEPT !.dirtyBitmap = @ \o ZeroWords(newBitmapSize - t.bitmapSize),
              !.bitmapSize = newBitmapSize]

\* a call that sets totalPages to the end of the range it marks, also when
\* the file already extends further
vfs_tracking_mark_dirty_Shrinks(t, offset, amount, reallocOk) ==
    IF amount <= 0 THEN t
    ELSE LET startPage == offset \div t.pageSize
             endPage == (offset + amount - 1) \div t.pageSize
             requiredPages == endPage + 1
             newBitmapSize == (requiredPages + (WORD_BITS - 1)) \div WORD_BITS
             needPages == requiredPages > t.totalPages
             needWords == needPages /\ newBitmapSize > t.bitmapSize
         IN  IF needWords /\ ~reallocOk THEN t
             ELSE LET grown == IF needWords THEN GrowBitmap(t, newBitmapSize) ELSE t
                      sized == [grown EXCEPT !.totalPages = requiredPages]
                  IN  [sized EXCEPT !.dirtyBitmap = MarkPages(@, startPage, endPage)]

\* a call that loses the old bitmap when realloc returns NULL
vfs_tracking_mark_dirty_DropsOnRefusal(t, offset, amount, reallocOk) ==
    IF amount <= 0 THEN t
    ELSE LET startPage == offset \div t.pageSize
             endPage == (offset + amount - 1) \div t.pageSize
             requiredPages == endPage + 1
             newBitmapSize == (requiredPages + (WORD_BITS - 1)) \div WORD_BITS
             needPages == requiredPages > t.totalPages
             needWords == needPages /\ newBitmapSize > t.bitmapSize
         IN  IF needWords /\ ~reallocOk
             THEN [t EXCEPT !.dirtyBitmap = <<>>, !.bitmapSize = 0, !.totalPages = 0]
             ELSE LET grown == IF needWords THEN GrowBitmap(t, newBitmapSize) ELSE t
                      sized == IF needPages
                               THEN [grown EXCEPT !.totalPages = requiredPages]
                               ELSE grown
                  IN  [sized EXCEPT !.dirtyBitmap = MarkPages(@, startPage, endPage)]

\* the tracker after the call, for a non-null tracker;
\* reallocOk: realloc, if called, returns storage.
\* The (uint32_t) casts are exact for the page indices of this model.
vfs_tracking_mark_dirty(t, offset, amount, reallocOk) ==
    IF amount <= 0 THEN t
    ELSE LET startPage == offset \div t.pageSize
             endPage == (offset + amount - 1) \div t.pageSize
             requiredPages == endPage + 1
             newBitmapSize == (requiredPages + (WORD_BITS - 1)) \div WORD_BITS
             needPages == requiredPages > t.totalPages
             needWords == needPages /\ newBitmapSize > t.bitmapSize
         IN  IF needWords /\ ~reallocOk THEN t
             ELSE LET grown == IF needWords THEN GrowBitmap(t, newBitmapSize) ELSE t
                      sized == IF needPages
                               THEN [grown EXCEPT !.totalPages = requiredPages]
                               ELSE grown
                  IN  [sized EXCEPT !.dirtyBitmap = MarkPages(@, startPage, endPage)]

----------------------------------------------------------------------------
(* The page indices of vfs_tracking_mark_dirty at the width of the C types.
   A number is a sequence of 16-bit digits, most significant first: an
   int64_t has four digits, a uint32_t two. *)

DIGIT == 65536

\* the int64_t offsets passed: below 2^49, so that offset + amount - 1 does
\* not overflow the int64_t
WideOffsets ==
    {<<0, a, b, c>> : a \in {0, DEFAULT_PAGE_SIZE - 1, DEFAULT_PAGE_SIZE},
                      b \in {0, 1, DIGIT - 1},
                      c \in {0, DEFAULT_PAGE_SIZE - 6, DIGIT - DEFAULT_PAGE_SIZE}}
    \cup {<<1, 0, 0, c>> : c \in {0, DEFAULT_PAGE_SIZE - 6}}

\* the values of tracker->pageSize
WidePageSizes == {DEFAULT_PAGE_SIZE, SmallPageSize}

\* the digits of x + n, for an int64_t x and 0 <= n < 2^31
WideAdd(x, n) ==
    LET s4 == x[4] + (n % DIGIT)
        s3 == x[3] + (n \div DIGIT) + (s4 \div DIGIT)
        s2 == x[2] + (s3 \div DIGIT)
        s1 == x[1] + (s2 \div DIGIT)
    IN  <<s1, s2 % DIGIT, s3 % DIGIT, s4 % DIGIT>>

\* the digits of x / d (long division), for 0 < d < 2^15; rem: the remainder
\* carried into the first digit
RECURSIVE WideDiv(_, _, _)
WideDiv(x, d, rem) ==
    IF x = <<>> THEN <<>>
    ELSE LET n == rem * DIGIT + Head(x)
         IN  <<n \div d>> \o WideDiv(Tail(x), d, n % d)

\* (uint32_t)x for an int64_t x >= 0: the low 32 bits
ToUint32(x) == <<x[3], x[4]>>

\* u + n in uint32_t arithmetic (modulo 2^32), for 0 <= n < 2^16
Uint32Add(u, n) ==
    LET lo == u[2] + n
    IN  <<(u[1] + (lo \div DIGIT)) % DIGIT, lo % DIGIT>>

\* x < y for numbers of the same number of digits
RECURSIVE DigitsLess(_, _)
DigitsLess(x, y) ==
    /\ x # <<>>
    /\ \/ Head(x) < Head(y)
       \/ Head(x) = Head(y) /\ DigitsLess(Tail(x), Tail(y))

\* what vfs_tracking_mark_dirty computes for a tracker with no bitmap yet
\* (totalPages = 0, bitmapSize = 0) whose realloc succeeds: the page indices
\* and bitmapSize after the call
PageIndices(offset, amount, pageSize) ==
    LET startPage == ToUint32(WideDiv(offset, pageSize, 0))
        endPage == ToUint32(WideDiv(WideAdd(offset, amount - 1), pageSize, 0))
        requiredPages == Uint32Add(endPage, 1)
        newBitmapSize ==
            WideDiv(Uint32Add(requiredPages, WORD_BITS - 1), WORD_BITS, 0)
        grows == DigitsLess(<<0, 0>>, requiredPages) /\ DigitsLess(<<0, 0>>, newBitmapSize)
    IN  [set |-> TRUE, offset |-> offset, amount |-> amount, pageSize |-> pageSize,
         startPage |-> startPage, endPage |-> endPage,
         requiredPages |-> requiredPages,
         bitmapSize |-> IF grows THEN newBitmapSize ELSE <<0, 0>>]

\* the call returned at once: nothing computed
NoIndices(offset, amount, pageSize) ==
    [set |-> FALSE, offset |-> offset, amount |-> amount, pageSize |-> pageSize]

----------------------------------------------------------------------------
(* vfs_tracking_get_dirty_pages, vfs_tracking_reset_dirty *)

BitSet(t, i) == (i % WORD_BITS) \in t.dirtyBitmap[(i \div WORD_BITS) + 1]

\* the counting loop
RECURSIVE CountDirty(_, _)
CountDirty(t, i) ==
    IF i >= t.totalPages THEN 0
    ELSE (IF BitSet(t, i) THEN 1 ELSE 0) + CountDirty(t, i + 1)

\* a filling loop that numbers the pages from one
RECURSIVE FillDirty_OneBased(_, _)
FillDirty_OneBased(t, i) ==
    IF i >= t.totalPages THEN <<>>
    ELSE (IF BitSet(t, i) THEN <<i + 1>> ELSE <<>>) \o FillDirty_OneBased(t, i + 1)

\* the filling loop
RECURSIVE FillDirty(_, _)
FillDirty(t, i) ==
    IF i >= t.totalPages THEN <<>>
    ELSE (IF BitSet(t, i) THEN <<i>> ELSE <<>>) \o FillDirty(t, i + 1)

\* a result that reports a failed allocation as the generic error
DirtyPagesResult_GenericError(tracker, hp, mallocOk) ==
    IF tracker = NULL \/ hp[tracker].dirtyBitmap = <<>>
          \/ CountDirty(hp[tracker], 0) = 0
    THEN [rc |-> SQLITE_OK, out |-> [set |-> TRUE, count |-> 0, pages |-> <<>>]]
    ELSE IF ~mallocOk
    THEN [rc |-> SQLITE_ERROR, out |-> NoOut]
    ELSE [rc |-> SQLITE_OK,
          out |-> [set |-> TRUE, count |-> CountDirty(hp[tracker], 0),
                   pages |-> FillDirty(hp[tracker], 0)]]

\* what the call stores through pPageCount and ppPages, and returns
DirtyPagesResult(tracker, hp, mallocOk) ==
    IF tracker = NULL \/ hp[tracker].dirtyBitmap = <<>>
    THEN [rc |-> SQLITE_OK, out |-> [set |-> TRUE, count |-> 0, pages |-> <<>>]]
    ELSE LET dirtyCount == CountDirty(hp[tracker], 0)
         IN  IF dirtyCount = 0
             THEN [rc |-> SQLITE_OK, out |-> [set |-> TRUE, count |-> 0, pages |-> <<>>]]
             ELSE IF ~mallocOk
             THEN [rc |-> SQLITE_NOMEM, out |-> NoOut]
             ELSE [rc |-> SQLITE_OK,
                   out |-> [set |-> TRUE, count |-> dirtyCount,
                            pages |-> FillDirty(hp[tracker], 0)]]

\* a reset that also forgets the extent of the file
ClearBitmap_Forget(t) ==
    [t EXCEPT !.dirtyBitmap = ZeroWords(t.bitmapSize), !.totalPages = 0]

\* memset(dirtyBitmap, 0, bitmapSize * sizeof(uint32_t))
ClearBitmap(t) == [t EXCEPT !.dirtyBitmap = ZeroWords(t.bitmapSize)]

----------------------------------------------------------------------------
(* History variables: what the callers did, for the claims that speak of it *)

\* the names whose writes are recorded: those of the callers of Spec
NormNames == {NormalizeName(n) : n \in (FileNames \cup EdgeNames) \ {NULL_STR}}
NothingWritten == [n \in NormNames |-> {}]

\* calloc was called by vfs_tracking_get_file and returned NULL
CallocFails(filename, cell) ==
    /\ filename # NULL_STR
    /\ FindTracker(files, heap, NormalizeName(filename)) = NULL
    /\ cell = NULL

\* realloc was called by vfs_tracking_mark_dirty and returned NULL
ReallocFails(t, offset, amount, reallocOk) ==
    /\ ~reallocOk
    /\ vfs_tracking_mark_dirty(t, offset, amount, TRUE) # t
    /\ vfs_tracking_mark_dirty(t, offset, amount, FALSE) = t

\* the pages of the byte range [offset, offset + amount) for a page size
PagesOfRange(offset, amount, pageSize) ==
    {p \in 0..((offset + amount - 1) \div pageSize) :
        p >= offset \div pageSize}

\* a successful write of amount > 0 bytes through a handle opened under a name
\* normalizing to f, while the registry holds a tracker for f
WrittenAfter(file, offset, amount, rc) ==
    LET f == file.opened
        reg == IF f = NULL_STR THEN NULL ELSE FindTracker(files, heap, f)
    IN  IF rc = SQLITE_OK /\ amount > 0 /\ reg # NULL /\ f \in NormNames
        THEN [written EXCEPT ![f] = @ \cup PagesOfRange(offset, amount, heap[reg].pageSize)]
        ELSE written

----------------------------------------------------------------------------
(* sqlite3_vfs_find, as vfs_tracking_init uses it *)

sqlite3_vfs_find(zVfsName) ==
    IF zVfsName \in BaseVfsNames THEN zVfsName ELSE NULL_VFS

\* a lookup failure that is not reported
InitNotFoundRc_Ok == SQLITE_OK

\* the status returned when the base VFS is not found
InitNotFoundRc == SQLITE_ERROR

\* g_state.defaultPageSize = pageSize > 0 ? pageSize : DEFAULT_PAGE_SIZE
EffectivePageSize(pageSize) == IF pageSize > 0 THEN pageSize ELSE DEFAULT_PAGE_SIZE

\* an initialization without the early return
AlreadyInitialized_Never == FALSE

\* the early return of an initialized registry
AlreadyInitialized == pRealVfs # NULL_VFS

(* vfs_tracking_init; regRc is the result of sqlite3_vfs_register *)
vfs_tracking_init(baseVfsName, pageSize, regRc) ==
    /\ ~crashed
    /\ IF AlreadyInitialized
       THEN /\ last' = Call("init", NULL_STR, SQLITE_OK, NoOut)
            /\ UNCHANGED <<files, pRealVfs, defaultPageSize, heap, pAppData,
                           defaultVfs, written>>
       ELSE IF sqlite3_vfs_find(baseVfsName) = NULL_VFS
       THEN /\ last' = Call("init", NULL_STR, InitNotFoundRc, NoOut)
            /\ UNCHANGED <<files, pRealVfs, defaultPageSize, heap, pAppData,
                           defaultVfs, written>>
       ELSE /\ pRealVfs' = sqlite3_vfs_find(baseVfsName)
            /\ files' = <<>>
            /\ defaultPageSize' = EffectivePageSize(pageSize)
            /\ pAppData' = sqlite3_vfs_find(baseVfsName)
            /\ defaultVfs' = IF regRc = SQLITE_OK THEN "tracking" ELSE defaultVfs
            /\ last' = Call("init", NULL_STR, regRc, NoOut)
            /\ written' = NothingWritten
            /\ UNCHANGED heap
    /\ UNCHANGED <<engineVfs, openFiles, crashed, allocFailed>>

\* a shutdown that drops the list without freeing its trackers
FreeTrackers_None(list, hp) == hp

\* the heap after every tracker of the list was freed
FreeTrackers(list, hp) ==
    [a \in Addr |-> IF \E k \in 1..Len(list) : list[k] = a THEN FREED ELSE hp[a]]

(* vfs_tracking_shutdown *)
vfs_tracking_shutdown ==
    /\ ~crashed
    /\ heap' = FreeTrackers(files, heap)
    /\ defaultVfs' = IF defaultVfs = "tracking" THEN pAppData ELSE defaultVfs
    /\ files' = <<>>
    /\ pRealVfs' = NULL_VFS
    /\ last' = Call("shutdown", NULL_STR, NO_RC, NoOut)
    /\ written' = NothingWritten
    /\ UNCHANGED <<defaultPageSize, pAppData, engineVfs, openFiles, crashed,
                   allocFailed>>

(* vfs_tracking_get_dirty_pages; outOk: pPageCount and ppPages are not null *)
vfs_tracking_get_dirty_pages(filename, outOk, cell, mallocOk) ==
    /\ ~crashed
    /\ IF filename = NULL_STR \/ ~outOk
       THEN /\ last' = Call("get_dirty_pages", filename, SQLITE_ERROR, NoOut)
            /\ UNCHANGED <<files, heap, allocFailed>>
       ELSE LET r == vfs_tracking_get_file(filename, cell)
                res == DirtyPagesResult(r.ptr, r.heap, mallocOk)
            IN  /\ files' = r.files
                /\ heap' = r.heap
                /\ last' = Call("get_dirty_pages", filename, res.rc, res.out)
                /\ allocFailed' = (allocFailed \/ CallocFails(filename, cell)
                                      \/ res.rc = SQLITE_NOMEM)
    /\ UNCHANGED <<pRealVfs, defaultPageSize, pAppData, defaultVfs, engineVfs,
                   openFiles, crashed, written>>

(* vfs_tracking_reset_dirty *)
vfs_tracking_reset_dirty(filename, cell) ==
    /\ ~crashed
    /\ IF filename = NULL_STR
       THEN /\ last' = Call("reset_dirty", filename, SQLITE_ERROR, NoOut)
            /\ UNCHANGED <<files, heap, allocFailed, written>>
       ELSE LET r == vfs_tracking_get_file(filename, cell)
            IN  /\ files' = r.files
                /\ heap' = IF r.ptr = NULL \/ r.heap[r.ptr].dirtyBitmap = <<>>
                           THEN r.heap
                           ELSE [r.heap EXCEPT ![r.ptr] = ClearBitmap(@)]
                /\ last' = Call("reset_dirty", filename, SQLITE_OK, NoOut)
                /\ allocFailed' = (allocFailed \/ CallocFails(filename, cell))
                /\ written' = [n \in NormNames |->
                                IF n = NormalizeName(filename) THEN {} ELSE written[n]]
    /\ UNCHANGED <<pRealVfs, defaultPageSize, pAppData, defaultVfs, engineVfs,
                   openFiles, crashed>>

----------------------------------------------------------------------------
(* The VFS and file methods of the decorator *)

\* a TrackingFile: its tracker, and (history) the normalized name it was
\* opened under
TrackingFile(pTracker, opened) == [pTracker |-> pTracker, opened |-> opened]

\* the tracker a handle points to was released by vfs_tracking_shutdown
Dangling(pTracker) == pTracker # NULL /\ heap[pTracker] = FREED

\* isOpen as trackingOpen leaves it on the tracker it resolved
OpenFlagAfterOpen(t) == [t EXCEPT !.isOpen = 1]

\* tracking set up whatever the real xOpen returned
OpenSucceeded_Always(rc) == TRUE

\* if (rc == SQLITE_OK)
OpenSucceeded(rc) == rc = SQLITE_OK

\* a handle without a name that is left pointing at the head of the list
AnonymousTracker_First == IF files = <<>> THEN NULL ELSE Head(files)

\* p->pTracker of a handle opened without a name
AnonymousTracker == NULL

(* trackingOpen (xOpen); rc is the real xOpen's result, cell is calloc's.
   The engine calls it for a connection that found trackingVfs registered,
   or that holds it since an earlier successful open (a connection keeps
   its VFS after vfs_tracking_shutdown unregistered it). *)
trackingOpen(zName, rc, cell) ==
    /\ ~crashed
    /\ defaultVfs = "tracking" \/ engineVfs
    /\ BagCardinality(openFiles) < MaxHandles
    /\ engineVfs' = (engineVfs \/ rc = SQLITE_OK)
    /\ last' = MethodCall("xOpen", zName, rc, rc)
    /\ IF OpenSucceeded(rc)
       THEN IF zName # NULL_STR
            THEN LET r == vfs_tracking_get_file(zName, cell)
                 IN  /\ files' = r.files
                     /\ heap' = IF r.ptr # NULL
                                THEN [r.heap EXCEPT ![r.ptr] = OpenFlagAfterOpen(@)]
                                ELSE r.heap
                     /\ openFiles' = openFiles (+)
                            SetToBag({TrackingFile(r.ptr, NormalizeName(zName))})
                     /\ allocFailed' = (allocFailed \/ CallocFails(zName, cell))
            ELSE /\ openFiles' = openFiles (+) SetToBag({TrackingFile(AnonymousTracker, NULL_STR)})
                 /\ UNCHANGED <<files, heap, allocFailed>>
       ELSE UNCHANGED <<files, heap, openFiles, allocFailed>>
    /\ UNCHANGED <<pRealVfs, defaultPageSize, pAppData, defaultVfs, crashed, written>>

\* a close that leaves the flag as it is
OpenFlagAfterClose_Keep(t) == t

\* isOpen as fileClose leaves it on the handle's tracker
OpenFlagAfterClose(t) == [t EXCEPT !.isOpen = 0]

\* the result a file method hands back for the real method's result rc
MethodResult(rc) == rc

\* what the caller sees: the call's result, unless the process was aborted
Returned(call) == IF crashed' THEN Call("abort", NULL_STR, NO_RC, NoOut) ELSE call

(* fileClose (xClose) of the open handle p; abort: the outcome of an access
   to released storage *)
fileClose(p, rc, abort) ==
    /\ ~crashed
    /\ BagIn(p, openFiles)
    /\ IF Dangling(p.pTracker)
       THEN /\ crashed' = abort
            /\ UNCHANGED heap
       ELSE /\ heap' = IF p.pTracker # NULL
                       THEN [heap EXCEPT ![p.pTracker] = OpenFlagAfterClose(@)]
                       ELSE heap
            /\ UNCHANGED crashed
    /\ openFiles' = openFiles (-) SetToBag({p})
    /\ last' = Returned(MethodCall("xClose", p.opened, rc, MethodResult(rc)))
    /\ UNCHANGED <<files, pRealVfs, defaultPageSize, pAppData, defaultVfs,
                   engineVfs, written, allocFailed>>

\* tracking that ignores the real method's result
ShouldTrack_AnyRc(rc, pTracker) == pTracker # NULL

\* if (rc == SQLITE_OK && p->pTracker != NULL)
ShouldTrack(rc, pTracker) == rc = SQLITE_OK /\ pTracker # NULL

\* the tracking step shared by fileWrite and fileTruncate:
\* vfs_tracking_mark_dirty(p->pTracker, offset, amount) when ShouldTrack
TrackRange(p, offset, amount, rc, reallocOk, abort) ==
    IF ShouldTrack(rc, p.pTracker) /\ amount > 0 /\ Dangling(p.pTracker)
    THEN /\ crashed' = abort
         /\ UNCHANGED <<heap, allocFailed>>
    ELSE /\ heap' = IF ShouldTrack(rc, p.pTracker)
                    THEN [heap EXCEPT ![p.pTracker] =
                             vfs_tracking_mark_dirty(@, offset, amount, reallocOk)]
                    ELSE heap
         /\ allocFailed' = (allocFailed \/
                (ShouldTrack(rc, p.pTracker) /\
                 ReallocFails(heap[p.pTracker], offset, amount, reallocOk)))
         /\ UNCHANGED crashed

(* fileWrite (xWrite) on the open handle p; rc is the real xWrite's result *)
fileWrite(p, iAmt, iOfst, rc, reallocOk, abort) ==
    /\ ~crashed
    /\ BagIn(p, openFiles)
    /\ TrackRange(p, iOfst, iAmt, rc, reallocOk, abort)
    /\ last' = Returned(MethodCall("xWrite", p.opened, rc, MethodResult(rc)))
    /\ written' = WrittenAfter(p, iOfst, iAmt, rc)
    /\ UNCHANGED <<files, pRealVfs, defaultPageSize, pAppData, defaultVfs,
                   engineVfs, openFiles>>

(* fileTruncate (xTruncate) on the open handle p; rc is the real xTruncate's
   result *)
fileTruncate(p, size, rc, reallocOk, abort) ==
    /\ ~crashed
    /\ BagIn(p, openFiles)
    /\ TrackRange(p, size, 1, rc, reallocOk, abort)
    /\ last' = Returned(MethodCall("xTruncate", p.opened, rc, MethodResult(rc)))
    /\ written' = WrittenAfter(p, size, 1, rc)
    /\ UNCHANGED <<files, pRealVfs, defaultPageSize, pAppData, defaultVfs,
                   engineVfs, openFiles>>

----------------------------------------------------------------------------
(* The specification *)

Init ==
    /\ files = <<>>
    /\ pRealVfs = NULL_VFS
    /\ defaultPageSize = 0
    /\ heap = [a \in Addr |-> FREED]
    /\ pAppData = NULL_VFS
    /\ defaultVfs = "memfs"
    /\ engineVfs = FALSE
    /\ openFiles = EmptyBag
    /\ crashed = FALSE
    /\ last = Call("none", NULL_STR, NO_RC, NoOut)
    /\ written = NothingWritten
    /\ allocFailed = FALSE
    /\ calls = 0

(* The outcomes the environment can choose for a call: only those the call
   can observe *)

\* calloc is called only for a name the registry does not hold
CallocOutcomes(filename) ==
    IF filename = NULL_STR \/ FindTracker(files, heap, NormalizeName(filename)) # NULL
    THEN {NULL}
    ELSE CallocResults

\* released storage is accessed only through a dangling pTracker
AccessOutcomes(p) == IF Dangling(p.pTracker) THEN BOOLEAN ELSE {FALSE}

\* realloc is called only by a tracked method of a live tracker
ReallocOutcomes(p) == IF p.pTracker # NULL /\ ~Dangling(p.pTracker) THEN BOOLEAN ELSE {TRUE}

\* one more call, within the budget of the run
Counted ==
    /\ calls < MaxCalls
    /\ calls' = calls + 1

Initialize ==
    /\ Counted
    /\ \E n \in InitNames, ps \in PageSizeArgs, regRc \in RegisterRcs :
           vfs_tracking_init(n, ps, regRc)

Shutdown ==
    /\ Counted
    /\ vfs_tracking_shutdown

GetDirtyPages ==
    /\ Counted
    /\ \E f \in FileNames, outOk \in BOOLEAN, mallocOk \in BOOLEAN :
       \E cell \in CallocOutcomes(f) :
           vfs_tracking_get_dirty_pages(f, outOk, cell, mallocOk)

ResetDirty ==
    /\ Counted
    /\ \E f \in FileNames :
       \E cell \in CallocOutcomes(f) :
           vfs_tracking_reset_dirty(f, cell)

Open ==
    /\ Counted
    /\ \E f \in FileNames, rc \in BackendRcs :
       \E cell \in CallocOutcomes(f) :
           trackingOpen(f, rc, cell)

Close ==
    /\ Counted
    /\ \E p \in BagToSet(openFiles), rc \in BackendRcs :
       \E abort \in AccessOutcomes(p) :
           fileClose(p, rc, abort)

Write ==
    /\ Counted
    /\ \E p \in BagToSet(openFiles), amt \in Amounts, ofst \in Offsets,
          rc \in BackendRcs :
       \E reallocOk \in ReallocOutcomes(p), abort \in AccessOutcomes(p) :
           fileWrite(p, amt, ofst, rc, reallocOk, abort)

Truncate ==
    /\ Counted
    /\ \E p \in BagToSet(openFiles), size \in Offsets, rc \in BackendRcs :
       \E reallocOk \in ReallocOutcomes(p), abort \in AccessOutcomes(p) :
           fileTruncate(p, size, rc, reallocOk, abort)

Next ==
    \/ Initialize
    \/ Shutdown
    \/ GetDirtyPages
    \/ ResetDirty
    \/ Open
    \/ Close
    \/ Write
    \/ Truncate

Spec == Init /\ [][Next]_vars

(* The same program, with callers that also pass the empty file name and
   "/", in shorter runs *)

EdgeBudget == calls < MaxEdgeCalls

GetDirtyPagesEdge ==
    /\ Counted
    /\ \E f \in EdgeNames, mallocOk \in BOOLEAN :
       \E cell \in CallocOutcomes(f) :
           vfs_tracking_get_dirty_pages(f, TRUE, cell, mallocOk)

ResetDirtyEdge ==
    /\ Counted
    /\ \E f \in EdgeNames :
       \E cell \in CallocOutcomes(f) :
           vfs_tracking_reset_dirty(f, cell)

OpenEdge ==
    /\ Counted
    /\ \E f \in EdgeNames, rc \in BackendRcs :
       \E cell \in CallocOutcomes(f) :
           trackingOpen(f, rc, cell)

NextEdge ==
    \/ EdgeBudget /\ Initialize
    \/ EdgeBudget /\ Shutdown
    \/ EdgeBudget /\ GetDirtyPages
    \/ EdgeBudget /\ ResetDirty
    \/ EdgeBudget /\ Open
    \/ EdgeBudget /\ Close
    \/ EdgeBudget /\ Write
    \/ EdgeBudget /\ Truncate
    \/ EdgeBudget /\ GetDirtyPagesEdge
    \/ EdgeBudget /\ ResetDirtyEdge
    \/ EdgeBudget /\ OpenEdge

SpecEdge == Init /\ [][NextEdge]_vars

(* The same program, with callers that pass variants of one file name, in
   short runs *)

VariantBudget == calls < MaxVariantCalls

GetDirtyPagesVariant ==
    /\ Counted
    /\ \E f \in VariantNames, mallocOk \in BOOLEAN :
       \E cell \in CallocOutcomes(f) :
           vfs_tracking_get_dirty_pages(f, TRUE, cell, mallocOk)

ResetDirtyVariant ==
    /\ Counted
    /\ \E f \in VariantNames :
       \E cell \in CallocOutcomes(f) :
           vfs_tracking_reset_dirty(f, cell)

OpenVariant ==
    /\ Counted
    /\ \E f \in VariantNames, rc \in BackendRcs :
       \E cell \in CallocOutcomes(f) :
           trackingOpen(f, rc, cell)

NextVariant ==
    \/ VariantBudget /\ Initialize
    \/ VariantBudget /\ Shutdown
    \/ VariantBudget /\ Close
    \/ VariantBudget /\ Write
    \/ VariantBudget /\ Truncate
    \/ VariantBudget /\ GetDirtyPagesVariant
    \/ VariantBudget /\ ResetDirtyVariant
    \/ VariantBudget /\ OpenVariant

SpecVariant == Init /\ [][NextVariant]_vars

(* The same program, with callers that work on two files, in short runs *)

TwoFileBudget == calls < MaxTwoFileCalls

GetDirtyPagesTwoFile ==
    /\ Counted
    /\ \E f \in TwoFileNames, mallocOk \in BOOLEAN :
       \E cell \in CallocOutcomes(f) :
           vfs_tracking_get_dirty_pages(f, TRUE, cell, mallocOk)

ResetDirtyTwoFile ==
    /\ Counted
    /\ \E f \in TwoFileNames :
       \E cell \in CallocOutcomes(f) :
           vfs_tracking_reset_dirty(f, cell)

OpenTwoFile ==
    /\ Counted
    /\ \E f \in TwoFileNames, rc \in BackendRcs :
       \E cell \in CallocOutcomes(f) :
           trackingOpen(f, rc, cell)

NextTwoFile ==
    \/ TwoFileBudget /\ Initialize
    \/ TwoFileBudget /\ Shutdown
    \/ TwoFileBudget /\ Close
    \/ TwoFileBudget /\ Write
    \/ TwoFileBudget /\ Truncate
    \/ TwoFileBudget /\ GetDirtyPagesTwoFile
    \/ TwoFileBudget /\ ResetDirtyTwoFile
    \/ TwoFileBudget /\ OpenTwoFile

SpecTwoFile == Init /\ [][NextTwoFile]_vars

(* the index computation of vfs_tracking_mark_dirty(tracker, offset, amount)
   as a step: the call records its arguments and what it computed *)
MarkDirty ==
    \E offset \in WideOffsets, amount \in Amounts, pageSize \in WidePageSizes :
       /\ last' = Call("mark_dirty", NULL_STR, NO_RC,
                       IF amount <= 0 THEN NoIndices(offset, amount, pageSize)
                       ELSE PageIndices(offset, amount, pageSize))
       /\ UNCHANGED <<files, pRealVfs, defaultPageSize, heap, pAppData,
                      defaultVfs, engineVfs, openFiles, crashed, written,
                      allocFailed, calls>>

NextPageIndices == MarkDirty

SpecPageIndices == Init /\ [][NextPageIndices]_vars

(* The same program, with the methods that only forward to the real VFS *)

\* a forwarding method that reports success whatever the real method returned
DelegatedResult_Ok(rc) == SQLITE_OK

\* return pReal->xMethod(...): the real method's result, unchanged
DelegatedResult(rc) == rc

\* a method of the open handle p that only forwards; rc is the real
\* method's result
fileDelegate(method, p, rc) ==
    /\ ~crashed
    /\ BagIn(p, openFiles)
    /\ last' = MethodCall(method, p.opened, rc, DelegatedResult(rc))
    /\ UNCHANGED <<files, pRealVfs, defaultPageSize, heap, pAppData, defaultVfs,
                   engineVfs, openFiles, crashed, written, allocFailed>>

\* a method of trackingVfs that only forwards; the engine calls it like xOpen
trackingDelegate(method, zName, rc) ==
    /\ ~crashed
    /\ defaultVfs = "tracking" \/ engineVfs
    /\ last' = MethodCall(method, zName, rc, DelegatedResult(rc))
    /\ UNCHANGED <<files, pRealVfs, defaultPageSize, heap, pAppData, defaultVfs,
                   engineVfs, openFiles, crashed, written, allocFailed>>

trackingDelete(zName, rc) == trackingDelegate("xDelete", zName, rc)
trackingAccess(zName, rc) == trackingDelegate("xAccess", zName, rc)
trackingFullPathname(zName, rc) == trackingDelegate("xFullPathname", zName, rc)
fileRead(p, rc) == fileDelegate("xRead", p, rc)
fileSync(p, rc) == fileDelegate("xSync", p, rc)
fileFileSize(p, rc) == fileDelegate("xFileSize", p, rc)
fileLock(p, rc) == fileDelegate("xLock", p, rc)
fileUnlock(p, rc) == fileDelegate("xUnlock", p, rc)
fileCheckReservedLock(p, rc) == fileDelegate("xCheckReservedLock", p, rc)
fileFileControl(p, rc) == fileDelegate("xFileControl", p, rc)
fileSectorSize(p, rc) == fileDelegate("xSectorSize", p, rc)
fileDeviceCharacteristics(p, rc) == fileDelegate("xDeviceCharacteristics", p, rc)

\* the names of the forwarding methods, as the last call records them
Delegates ==
    {"xDelete", "xAccess", "xFullPathname", "xRead", "xSync", "xFileSize",
     "xLock", "xUnlock", "xCheckReservedLock", "xFileControl", "xSectorSize",
     "xDeviceCharacteristics"}

DelegationBudget == calls < MaxDelegationCalls

Delete ==
    /\ Counted
    /\ \E f \in FileNames \ {NULL_STR}, rc \in BackendRcs : trackingDelete(f, rc)

Access ==
    /\ Counted
    /\ \E f \in FileNames \ {NULL_STR}, rc \in BackendRcs : trackingAccess(f, rc)

FullPathname ==
    /\ Counted
    /\ \E f \in FileNames \ {NULL_STR}, rc \in BackendRcs : trackingFullPathname(f, rc)

Read ==
    /\ Counted
    /\ \E p \in BagToSet(openFiles), rc \in BackendRcs : fileRead(p, rc)

Sync ==
    /\ Counted
    /\ \E p \in BagToSet(openFiles), rc \in BackendRcs : fileSync(p, rc)

FileSize ==
    /\ Counted
    /\ \E p \in BagToSet(openFiles), rc \in BackendRcs : fileFileSize(p, rc)

Lock ==
    /\ Counted
    /\ \E p \in BagToSet(openFiles), rc \in BackendRcs : fileLock(p, rc)

Unlock ==
    /\ Counted
    /\ \E p \in BagToSet(openFiles), rc \in BackendRcs : fileUnlock(p, rc)

CheckReservedLock ==
    /\ Counted
    /\ \E p \in BagToSet(openFiles), rc \in BackendRcs : fileCheckReservedLock(p, rc)

FileControl ==
    /\ Counted
    /\ \E p \in BagToSet(openFiles), rc \in BackendRcs : fileFileControl(p, rc)

SectorSize ==
    /\ Counted
    /\ \E p \in BagToSet(openFiles), rc \in BackendRcs : fileSectorSize(p, rc)

DeviceCharacteristics ==
    /\ Counted
    /\ \E p \in BagToSet(openFiles), rc \in BackendRcs : fileDeviceCharacteristics(p, rc)

NextDelegation ==
    \/ DelegationBudget /\ Initialize
    \/ DelegationBudget /\ Shutdown
    \/ DelegationBudget /\ GetDirtyPages
    \/ DelegationBudget /\ ResetDirty
    \/ DelegationBudget /\ Open
    \/ DelegationBudget /\ Close
    \/ DelegationBudget /\ Write
    \/ DelegationBudget /\ Truncate
    \/ DelegationBudget /\ Delete
    \/ DelegationBudget /\ Access
    \/ DelegationBudget /\ FullPathname
    \/ DelegationBudget /\ Read
    \/ DelegationBudget /\ Sync
    \/ DelegationBudget /\ FileSize
    \/ DelegationBudget /\ Lock
    \/ DelegationBudget /\ Unlock
    \/ DelegationBudget /\ CheckReservedLock
    \/ DelegationBudget /\ FileControl
    \/ DelegationBudget /\ SectorSize
    \/ DelegationBudget /\ DeviceCharacteristics

SpecDelegation == Init /\ [][NextDelegation]_vars

----------------------------------------------------------------------------
(* The notions the properties are stated in *)

\* a name with one leading slash stripped
StripSlash(name) == IF name # <<>> /\ Head(name) = "/" THEN Tail(name) ELSE name

\* the dirty set of a tracker: the pages below totalPages whose bit is set
DirtySet(t) ==
    {i \in 0..(t.totalPages - 1) :
        (i % WORD_BITS) \in t.dirtyBitmap[(i \div WORD_BITS) + 1]}

\* the addresses of the registry's trackers for the normalized name f
RegisteredAs(f) ==
    {files[k] : k \in {j \in 1..Len(files) : heap[files[j]].filename = f}}

\* the pages vfs_tracking_get_dirty_pages reports for f when no allocation
\* fails, as a set
ReportedPages(f) ==
    LET r == DirtyPagesResult(FindTracker(files, heap, f), heap, TRUE)
    IN  {r.out.pages[k] : k \in 1..r.out.count}

\* the handle points to a tracker that was not released
Tracked(p) == p.pTracker # NULL /\ heap[p.pTracker] # FREED

EmptyOut == [set |-> TRUE, count |-> 0, pages |-> <<>>]

----------------------------------------------------------------------------
(* C1: between a successful vfs_tracking_init and the next shutdown, with no
   allocation failure, vfs_tracking_get_dirty_pages(f) reports exactly the
   pages covered by the successful writes of positive length made through
   handles opened under a name normalizing to f since the last reset of f
   (or since f's tracker was created). *)
C1_ReportsExactlyWritten ==
    (defaultVfs = "tracking" /\ pRealVfs # NULL_VFS /\ ~allocFailed /\ ~crashed)
        => \A f \in NormNames : ReportedPages(f) = written[f]

----------------------------------------------------------------------------
(* C2, as claimed: for every offset >= 0 and length > 0, after
   vfs_tracking_mark_dirty(tracker, offset, length) the dirty set is the old
   dirty set together with every page from offset div pageSize to
   (offset + length - 1) div pageSize. *)
C2_MarkIsUnion ==
    [][(last'.op = "xWrite" /\ last'.rc = SQLITE_OK) =>
       \A p \in BagToSet(openFiles), amt \in Amounts, ofst \in Offsets,
          reallocOk \in BOOLEAN :
          (amt > 0 /\ Tracked(p)
             /\ fileWrite(p, amt, ofst, SQLITE_OK, reallocOk, FALSE))
          => DirtySet(heap'[p.pTracker]) =
                DirtySet(heap[p.pTracker])
                  \cup PagesOfRange(ofst, amt, heap[p.pTracker].pageSize)]_vars

(* C2, amended: the same when the growth of the bitmap, if one is needed,
   is granted; when it is refused the tracker is left exactly as it was. *)
C2_MarkIsUnionUnlessRefused ==
    [][(last'.op = "xWrite" /\ last'.rc = SQLITE_OK) =>
       \A p \in BagToSet(openFiles), amt \in Amounts, ofst \in Offsets,
          reallocOk \in BOOLEAN :
          (amt > 0 /\ Tracked(p)
             /\ fileWrite(p, amt, ofst, SQLITE_OK, reallocOk, FALSE))
          => LET union == DirtySet(heap[p.pTracker])
                            \cup PagesOfRange(ofst, amt, heap[p.pTracker].pageSize)
             IN  IF reallocOk
                 THEN DirtySet(heap'[p.pTracker]) = union
                 ELSE \/ DirtySet(heap'[p.pTracker]) = union
                      \/ heap'[p.pTracker] = heap[p.pTracker]]_vars

\* a write grew the bitmap past its first word and the pages of the first
\* word are still dirty
C2_Witness ==
    /\ last.op = "xWrite"
    /\ last.rc = SQLITE_OK
    /\ \E a \in Addr :
          /\ heap[a] # FREED
          /\ heap[a].bitmapSize > 1
          /\ \E i, j \in DirtySet(heap[a]) : i < WORD_BITS /\ j >= WORD_BITS

----------------------------------------------------------------------------
(* C3: fileWrite returns the status of the real xWrite unchanged, and a
   write the backend failed leaves the handle's tracker (dirty set and
   totalPages) as it was - as it leaves every tracker. *)
C3_WriteKeepsStatus ==
    [][last'.op = "xWrite" =>
          /\ last'.rc = last'.real
          /\ last'.real # SQLITE_OK => heap' = heap]_vars

\* a failed write was returned through a handle whose tracker has dirty pages
C3_Witness ==
    /\ last.op = "xWrite"
    /\ last.rc = SQLITE_ERROR
    /\ \E p \in BagToSet(openFiles) :
          /\ p.opened = last.name
          /\ Tracked(p)
          /\ DirtySet(heap[p.pTracker]) # {}

----------------------------------------------------------------------------
(* C4: in every reachable state, a tracker of the registry has isOpen set
   exactly when at least one open handle references it (stated here of the
   states of an initialized registry). *)
C4_OpenIffReferenced ==
    pRealVfs # NULL_VFS => \A k \in 1..Len(files) :
        (heap[files[k]].isOpen = 1)
            <=> (\E p \in BagToSet(openFiles) : p.pTracker = files[k])

----------------------------------------------------------------------------
(* C5: in every reachable state the registry holds at most one tracker per
   normalized name, and references to names that normalize to the same
   string resolve to the same tracker: a lookup under either name returns
   the same tracker, and the tracker a handle gets from xOpen is the one a
   lookup under any such name returns afterwards. *)
C5_OneTrackerPerName ==
    /\ [](/\ \A i, j \in 1..Len(files) :
                i # j => /\ files[i] # files[j]
                         /\ heap[files[i]].filename # heap[files[j]].filename
          /\ \A n1, n2 \in FileNames \ {NULL_STR} :
                StripSlash(n1) = StripSlash(n2)
                   => \A cell \in CallocResults :
                         vfs_tracking_get_file(n1, cell).ptr
                            = vfs_tracking_get_file(n2, cell).ptr)
    /\ [][(last'.op = "xOpen" /\ last'.rc = SQLITE_OK) =>
          \A h \in BagToSet(openFiles') :
             (openFiles' = openFiles (+) SetToBag({h}) /\ h.pTracker # NULL)
             => \A n \in FileNames \ {NULL_STR} :
                   StripSlash(n) = StripSlash(last'.name)
                      => /\ RegisteredAs(StripSlash(n))' = {h.pTracker}
                         /\ (vfs_tracking_get_file(n, NULL).ptr)' = h.pTracker]_vars

\* a handle was opened as "/d" on the tracker that writes under "d" had
\* already made dirty, and no second tracker was created
C5_Witness ==
    /\ last.op = "xOpen"
    /\ last.name = <<"/", "d">>
    /\ last.rc = SQLITE_OK
    /\ Len(files) = 1
    /\ heap[files[1]].filename = <<"d">>
    /\ DirtySet(heap[files[1]]) # {}
    /\ \E p \in BagToSet(openFiles) : p.pTracker = files[1]

----------------------------------------------------------------------------
(* C6: closing a handle and opening or reopening a handle on a file name
   leave that file's dirty set and totalPages unchanged; only
   vfs_tracking_reset_dirty and vfs_tracking_shutdown remove pages from a
   dirty set. *)
DirtyPagesOf(f) ==
    IF FindTracker(files, heap, f) = NULL THEN {}
    ELSE DirtySet(heap[FindTracker(files, heap, f)])

TotalPagesOf(f) ==
    IF FindTracker(files, heap, f) = NULL THEN 0
    ELSE heap[FindTracker(files, heap, f)].totalPages

C6_OnlyResetAndShutdownRemove ==
    [][\A f \in NormNames :
          /\ last'.op \in {"xOpen", "xClose"}
                => /\ DirtyPagesOf(f)' = DirtyPagesOf(f)
                   /\ TotalPagesOf(f)' = TotalPagesOf(f)
          /\ ~(DirtyPagesOf(f) \subseteq DirtyPagesOf(f)')
                => last'.op \in {"reset_dirty", "shutdown"}]_vars

----------------------------------------------------------------------------
(* C7: vfs_tracking_reset_dirty(f) followed immediately by
   vfs_tracking_get_dirty_pages(f) yields the empty result, and the reset
   keeps the tracker in the registry with its totalPages, pageSize and
   isOpen unchanged. *)
C7_ResetEmptiesOnly ==
    [][/\ last'.op = "reset_dirty" =>
          \A f \in FileNames, k \in 1..Len(files) :
             (f = last'.name /\ heap[files[k]].filename = StripSlash(f))
                => /\ files[k] \in RegisteredAs(StripSlash(f))'
                   /\ heap'[files[k]].totalPages = heap[files[k]].totalPages
                   /\ heap'[files[k]].pageSize = heap[files[k]].pageSize
                   /\ heap'[files[k]].isOpen = heap[files[k]].isOpen
                   /\ DirtySet(heap'[files[k]]) = {}
       /\ (last.op = "reset_dirty" /\ last.rc = SQLITE_OK
             /\ last'.op = "get_dirty_pages" /\ last'.rc # SQLITE_ERROR
             /\ StripSlash(last'.name) = StripSlash(last.name))
          => /\ last'.rc = SQLITE_OK
             /\ last'.out = EmptyOut]_vars

\* a reset emptied the dirty set of an open tracker that had pages
C7_Witness ==
    /\ last.op = "reset_dirty"
    /\ last.rc = SQLITE_OK
    /\ \E a \in RegisteredAs(StripSlash(last.name)) :
          /\ heap[a].totalPages > 0
          /\ heap[a].isOpen = 1
          /\ DirtySet(heap[a]) = {}

----------------------------------------------------------------------------
(* C8: vfs_tracking_init on an initialized registry returns SQLITE_OK and
   changes nothing - the real backend, the effective page size, the
   installed decorator and every tracker stay as they were - whatever base
   name and page size are passed. *)
C8_InitIsIdempotent ==
    [][(last'.op = "init" /\ pRealVfs # NULL_VFS)
          => /\ last'.rc = SQLITE_OK
             /\ UNCHANGED <<files, pRealVfs, defaultPageSize, heap, pAppData,
                            defaultVfs, openFiles>>]_vars

\* vfs_tracking_init returned on a registry that holds a dirty tracker
C8_Witness ==
    /\ last.op = "init"
    /\ last.rc = SQLITE_OK
    /\ defaultPageSize = SmallPageSize
    /\ \E k \in 1..Len(files) : DirtySet(heap[files[k]]) # {}

----------------------------------------------------------------------------
(* C9, as claimed: vfs_tracking_init with a base name that does not exist
   returns a NotFound status distinct from the generic error, and leaves the
   registry uninitialized and the decorator not installed. *)
C9_UnknownBaseIsNotFound ==
    [][last'.op = "init" =>
       \A n \in InitNames \ BaseVfsNames, ps \in PageSizeArgs,
          regRc \in RegisterRcs :
          vfs_tracking_init(n, ps, regRc)
          => /\ last'.rc = SQLITE_NOTFOUND
             /\ last'.rc # SQLITE_ERROR
             /\ pRealVfs' = NULL_VFS
             /\ defaultVfs' # "tracking"]_vars

(* C9, amended: on a registry that is not initialized, vfs_tracking_init
   with a base name that does not exist returns the generic SQLITE_ERROR,
   and leaves the registry uninitialized and the decorator not installed. *)
C9_UnknownBaseIsError ==
    [][(last'.op = "init" /\ pRealVfs = NULL_VFS) =>
       \A n \in InitNames \ BaseVfsNames, ps \in PageSizeArgs,
          regRc \in RegisterRcs :
          vfs_tracking_init(n, ps, regRc)
          => /\ last'.rc = SQLITE_ERROR
             /\ pRealVfs' = NULL_VFS
             /\ defaultVfs' # "tracking"
             /\ UNCHANGED <<files, defaultPageSize, heap, pAppData>>]_vars

\* vfs_tracking_init failed with the generic error and nothing is installed
C9_Witness ==
    /\ last.op = "init"
    /\ last.rc = SQLITE_ERROR
    /\ pRealVfs = NULL_VFS
    /\ defaultVfs # "tracking"

----------------------------------------------------------------------------
(* C10: whenever vfs_tracking_init returns SQLITE_OK, the decorator is
   installed as the default VFS and the effective page size is positive. *)
C10_OkMeansInstalled ==
    (last.op = "init" /\ last.rc = SQLITE_OK)
        => (defaultVfs = "tracking" /\ defaultPageSize > 0)

----------------------------------------------------------------------------
(* C11, as claimed: vfs_tracking_shutdown discards every tracker and
   uninstalls the decorator - afterwards the registry is uninitialized and
   holds no tracker, vfs_tracking_get_dirty_pages of any file name returns
   the empty result, and a following vfs_tracking_init with a different page
   size succeeds and takes effect - and a shutdown of a registry that was
   never initialized changes nothing. *)
NeverInitialized == pRealVfs = NULL_VFS /\ defaultPageSize = 0

ShutdownDiscards ==
    /\ pRealVfs' = NULL_VFS
    /\ files' = <<>>
    /\ defaultVfs' # "tracking"
    /\ \A k \in 1..Len(files) : heap'[files[k]] = FREED
    /\ \A f \in NormNames : ReportedPages(f)' = {}

ReinitTakesEffect ==
    (last.op = "shutdown" /\ last'.op = "init") =>
       \A n \in BaseVfsNames, ps \in PageSizeArgs :
          vfs_tracking_init(n, ps, SQLITE_OK)
          => /\ last'.rc = SQLITE_OK
             /\ pRealVfs' # NULL_VFS
             /\ defaultVfs' = "tracking"
             /\ defaultPageSize' = IF ps > 0 THEN ps ELSE DEFAULT_PAGE_SIZE

EmptyAfterShutdown ==
    (last.op = "shutdown" /\ last'.op = "get_dirty_pages"
        /\ last'.name # NULL_STR /\ last'.rc # SQLITE_ERROR)
    => /\ last'.rc = SQLITE_OK
       /\ last'.out = EmptyOut

C11_ShutdownDiscardsOrNothing ==
    [][/\ last'.op = "shutdown" =>
            /\ ShutdownDiscards
            /\ NeverInitialized =>
                  UNCHANGED <<files, pRealVfs, defaultPageSize, heap, pAppData,
                              defaultVfs, engineVfs, openFiles>>
       /\ EmptyAfterShutdown
       /\ ReinitTakesEffect]_vars

(* C11, amended: the same, except that a shutdown of a registry that was
   never initialized still discards the trackers that earlier queries
   created; it changes nothing else, and nothing at all when the registry
   holds no tracker. *)
C11_ShutdownDiscards ==
    [][/\ last'.op = "shutdown" =>
            /\ ShutdownDiscards
            /\ NeverInitialized =>
                  /\ UNCHANGED <<pRealVfs, defaultPageSize, pAppData,
                                 defaultVfs, engineVfs, openFiles>>
                  /\ files = <<>> => UNCHANGED <<files, heap>>
       /\ EmptyAfterShutdown
       /\ ReinitTakesEffect]_vars

\* a shutdown of an initialized registry released the tracker an open handle
\* still points to
C11_Witness ==
    /\ last.op = "shutdown"
    /\ defaultPageSize > 0
    /\ files = <<>>
    /\ \E p \in BagToSet(openFiles) : Dangling(p.pTracker)

----------------------------------------------------------------------------
(* C12: in every reachable state the sequence vfs_tracking_get_dirty_pages(f)
   returns is strictly ascending, zero-based, has every index in
   [0, totalPages), contains exactly the indices whose bit is set, and the
   returned count is its length; it is empty with count 0 when the tracker
   has no bitmap or no bit set. The result the last call returned has the
   same shape. *)
StrictlyAscending(seq) == \A i, j \in 1..Len(seq) : i < j => seq[i] < seq[j]

WellFormedResult(out, tracker) ==
    /\ out.set
    /\ out.count = Len(out.pages)
    /\ StrictlyAscending(out.pages)
    /\ IF tracker = NULL
       THEN out = EmptyOut
       ELSE /\ \A k \in 1..Len(out.pages) :
                  out.pages[k] >= 0 /\ out.pages[k] < heap[tracker].totalPages
            /\ {out.pages[k] : k \in 1..Len(out.pages)} = DirtySet(heap[tracker])
            /\ (heap[tracker].dirtyBitmap = <<>> \/ DirtySet(heap[tracker]) = {})
                  => out = EmptyOut

C12_PagesAscendingExact ==
    /\ \A f \in FileNames \ {NULL_STR} :
          LET tracker == FindTracker(files, heap, StripSlash(f))
              res == DirtyPagesResult(vfs_tracking_get_file(f, NULL).ptr, heap, TRUE)
          IN  res.rc = SQLITE_OK /\ WellFormedResult(res.out, tracker)
    /\ (last.op = "get_dirty_pages" /\ last.rc = SQLITE_OK)
          => WellFormedResult(last.out, FindTracker(files, heap, StripSlash(last.name)))

\* the last call returned three or more pages, from the first word of the
\* bitmap and from a later one
C12_Witness ==
    /\ last.op = "get_dirty_pages"
    /\ last.rc = SQLITE_OK
    /\ last.out.count >= 3
    /\ \E i, j \in 1..Len(last.out.pages) :
          last.out.pages[i] < WORD_BITS /\ last.out.pages[j] >= WORD_BITS

----------------------------------------------------------------------------
(* C13, as claimed: vfs_tracking_get_dirty_pages returns SQLITE_OK for every
   non-null file name in every reachable state - registry initialized or
   not, tracker present or absent, bitmap present or absent, result
   allocation succeeding or not; vfs_tracking_reset_dirty returns SQLITE_OK
   for every non-null file name and SQLITE_ERROR for a null one; with a null
   file name neither call creates or modifies a tracker. *)
\* the result array is allocated only for a file that has dirty pages
MallocOutcomes(f) ==
    IF DirtyPagesOf(StripSlash(f)) = {} THEN {TRUE} ELSE BOOLEAN

NullNameIsRefused ==
    (last'.op \in {"get_dirty_pages", "reset_dirty"} /\ last'.name = NULL_STR)
    => /\ last'.rc = SQLITE_ERROR
       /\ UNCHANGED <<files, heap>>

ResetIsOk ==
    (last'.op = "reset_dirty" /\ last'.name # NULL_STR) => last'.rc = SQLITE_OK

C13_QueriesAlwaysOk ==
    [][/\ last'.op = "get_dirty_pages" =>
            \A f \in {last'.name} \ {NULL_STR} :
            \A mallocOk \in MallocOutcomes(f), cell \in CallocOutcomes(f) :
               vfs_tracking_get_dirty_pages(f, TRUE, cell, mallocOk)
               => last'.rc = SQLITE_OK
       /\ ResetIsOk
       /\ NullNameIsRefused]_vars

(* C13, amended: vfs_tracking_get_dirty_pages, given non-null output
   arguments, returns SQLITE_OK for every non-null file name in every
   reachable state unless the result array cannot be allocated; then it
   returns SQLITE_NOMEM, stores no result and changes no tracker. The rest
   as claimed. *)
C13_QueriesOkUnlessNoMemory ==
    [][/\ last'.op = "get_dirty_pages" =>
            \A f \in {last'.name} \ {NULL_STR} :
            \A mallocOk \in MallocOutcomes(f) :
               \/ mallocOk /\ last'.rc = SQLITE_OK /\ last'.out.set
               \/ \A cell \in CallocOutcomes(f) :
                     vfs_tracking_get_dirty_pages(f, TRUE, cell, mallocOk)
                     => IF mallocOk
                        THEN last'.rc = SQLITE_OK /\ last'.out.set
                        ELSE /\ last'.rc = SQLITE_NOMEM
                             /\ last'.out = NoOut
                             /\ UNCHANGED <<files, heap>>
       /\ ResetIsOk
       /\ NullNameIsRefused]_vars

\* a query of a file with dirty pages returned SQLITE_NOMEM
C13_Witness ==
    /\ last.op = "get_dirty_pages"
    /\ last.name # NULL_STR
    /\ last.rc = SQLITE_NOMEM
    /\ DirtyPagesOf(StripSlash(last.name)) # {}

----------------------------------------------------------------------------
(* C14: vfs_tracking_get_file with a null or an empty file name returns the
   failure sentinel and inserts no tracker, so a call that passes such a
   name leaves the registry as it was; and the registry never holds a
   tracker whose normalized name is empty, also after a reference to "/". *)
C14_NoTrackerForEmptyName ==
    /\ [](\A k \in 1..Len(files) : heap[files[k]].filename # <<>>)
    /\ [][(last'.op \in {"get_dirty_pages", "reset_dirty", "xOpen"}
             /\ last'.name \in {NULL_STR, <<>>})
          => UNCHANGED <<files, heap>>]_vars

----------------------------------------------------------------------------
(* C15, as claimed: a successful xTruncate to newSize through a tracked
   handle makes exactly the page newSize div pageSize dirty and changes no
   other page - the pages that were dirty, at or beyond the new end of file
   too, stay dirty; a failed xTruncate changes no tracker; and fileTruncate
   always returns the real xTruncate's result. *)
TruncateKeepsStatus ==
    /\ last'.rc = last'.real
    /\ last'.real # SQLITE_OK => heap' = heap

C15_TruncateMarksOnePage ==
    [][last'.op = "xTruncate" =>
          /\ TruncateKeepsStatus
          /\ last'.rc = SQLITE_OK =>
                \A p \in BagToSet(openFiles), size \in Offsets,
                   reallocOk \in BOOLEAN :
                   (p.opened = last'.name /\ Tracked(p)
                      /\ fileTruncate(p, size, SQLITE_OK, reallocOk, FALSE))
                   => DirtySet(heap'[p.pTracker]) =
                         DirtySet(heap[p.pTracker])
                           \cup {size \div heap[p.pTracker].pageSize}]_vars

(* C15, amended: the same when the growth of the bitmap, if one is needed,
   is granted; when it is refused the tracker is left exactly as it was. *)
C15_TruncateMarksOnePageUnlessRefused ==
    [][last'.op = "xTruncate" =>
          /\ TruncateKeepsStatus
          /\ last'.rc = SQLITE_OK =>
                \A p \in BagToSet(openFiles), size \in Offsets,
                   reallocOk \in BOOLEAN :
                   (p.opened = last'.name /\ Tracked(p)
                      /\ fileTruncate(p, size, SQLITE_OK, reallocOk, FALSE))
                   => LET union == DirtySet(heap[p.pTracker])
                                     \cup {size \div heap[p.pTracker].pageSize}
                      IN  IF reallocOk
                          THEN DirtySet(heap'[p.pTracker]) = union
                          ELSE \/ DirtySet(heap'[p.pTracker]) = union
                               \/ heap'[p.pTracker] = heap[p.pTracker]]_vars

\* a truncate to a size in the first page succeeded on a tracker whose only
\* other dirty page lies beyond the new end of file
C15_Witness ==
    /\ last.op = "xTruncate"
    /\ last.rc = SQLITE_OK
    /\ \E p \in BagToSet(openFiles) :
          /\ p.opened = last.name
          /\ Tracked(p)
          /\ heap[p.pTracker].pageSize = DEFAULT_PAGE_SIZE
          /\ DirtySet(heap[p.pTracker]) = {0, FarPage}

----------------------------------------------------------------------------
(* C16: when the real xOpen fails, trackingOpen returns the same error and
   leaves the registry as it was - no tracker is created, and no isOpen,
   dirty set or totalPages is modified; a handle becomes open only by a
   successful xOpen. *)
C16_FailedOpenChangesNothing ==
    [][last'.op = "xOpen" =>
          /\ last'.rc = last'.real
          /\ last'.real # SQLITE_OK => UNCHANGED <<files, heap, openFiles>>
          /\ openFiles' # openFiles =>
                /\ last'.real = SQLITE_OK
                /\ BagCardinality(openFiles') = BagCardinality(openFiles) + 1]_vars

\* the real xOpen failed for a file name while the registry holds a tracker
\* with dirty pages
C16_Witness ==
    /\ last.op = "xOpen"
    /\ last.name # NULL_STR
    /\ last.rc = SQLITE_ERROR
    /\ \E k \in 1..Len(files) : DirtySet(heap[files[k]]) # {}

----------------------------------------------------------------------------
(* C17: a handle opened with a null name carries no tracker reference, and
   no method called on it - xWrite, xTruncate, xClose - nor its xOpen
   creates a tracker or changes any tracker. *)
C17_NullNameIsUntracked ==
    /\ [](\A p \in BagToSet(openFiles) : p.opened = NULL_STR => p.pTracker = NULL)
    /\ [][(last'.op \in {"xOpen", "xWrite", "xTruncate", "xClose"}
             /\ last'.name = NULL_STR)
          => UNCHANGED <<files, heap>>]_vars

\* a write through a handle opened with a null name succeeded while the
\* registry holds a tracker
C17_Witness ==
    /\ last.op = "xWrite"
    /\ last.name = NULL_STR
    /\ last.rc = SQLITE_OK
    /\ files # <<>>
    /\ \E p \in BagToSet(openFiles) : p.opened = NULL_STR

----------------------------------------------------------------------------
(* C18: when the bitmap has to grow for a write the backend performed and
   the growth cannot be allocated, fileWrite still returns success and the
   tracker - every tracker - is exactly as before, with no partial marking;
   and writes made after an allocation failed are tracked as usual. *)
GrowthNeeded(t, offset, amount) ==
    ((offset + amount - 1) \div t.pageSize) + 1 > t.bitmapSize * WORD_BITS

C18_RefusedGrowthIsSilent ==
    [][(last'.op = "xWrite" /\ last'.real = SQLITE_OK) =>
       \A p \in BagToSet(openFiles), amt \in Amounts, ofst \in Offsets :
          (p.opened = last'.name /\ amt > 0 /\ Tracked(p)) =>
             /\ (GrowthNeeded(heap[p.pTracker], ofst, amt)
                   /\ fileWrite(p, amt, ofst, SQLITE_OK, FALSE, FALSE))
                => /\ last'.rc = SQLITE_OK
                   /\ heap' = heap
             /\ (allocFailed /\ fileWrite(p, amt, ofst, SQLITE_OK, TRUE, FALSE))
                => DirtySet(heap'[p.pTracker]) =
                      DirtySet(heap[p.pTracker])
                        \cup PagesOfRange(ofst, amt, heap[p.pTracker].pageSize)]_vars

\* the third call of the run, a successful write through a tracked handle,
\* was refused the growth of the bitmap: the tracker has no page
C18_Witness ==
    /\ calls = 3
    /\ allocFailed
    /\ last.op = "xWrite"
    /\ last.rc = SQLITE_OK
    /\ \E p \in BagToSet(openFiles) :
          /\ p.opened = last.name
          /\ Tracked(p)
          /\ heap[p.pTracker].dirtyBitmap = <<>>
          /\ heap[p.pTracker].totalPages = 0

----------------------------------------------------------------------------
(* C19: fileClose returns the real xClose's result and, whether that is
   success or failure, sets isOpen to 0 on the tracker of the handle; the
   tracker stays in the registry, and its dirty set and totalPages - like
   every other field of every tracker - are unchanged. *)
C19_CloseClearsOpenFlag ==
    [][last'.op = "xClose" =>
          /\ last'.rc = last'.real
          /\ files' = files
          /\ \A p \in BagToSet(openFiles) :
                (openFiles' = openFiles (-) SetToBag({p}) /\ Tracked(p))
                => /\ heap'[p.pTracker].isOpen = 0
                   /\ heap' = [heap EXCEPT ![p.pTracker].isOpen = 0]
                   /\ DirtySet(heap'[p.pTracker]) = DirtySet(heap[p.pTracker])
                   /\ heap'[p.pTracker].totalPages = heap[p.pTracker].totalPages]_vars

\* the real xClose failed on a handle whose tracker has dirty pages; the
\* tracker is in the registry, marked not open
C19_Witness ==
    /\ last.op = "xClose"
    /\ last.rc = SQLITE_ERROR
    /\ \E a \in RegisteredAs(StripSlash(last.name)) :
          /\ heap[a].isOpen = 0
          /\ DirtySet(heap[a]) # {}

----------------------------------------------------------------------------
(* C20: the methods that only forward - xRead, xSync, xFileSize, xLock,
   xUnlock, xCheckReservedLock, xFileControl, xSectorSize,
   xDeviceCharacteristics, xDelete, xAccess, xFullPathname - return exactly
   the real method's result and leave the whole registry unchanged; in
   particular xDelete of a name neither removes its tracker nor clears its
   dirty pages, which are still reported afterwards. *)
C20_DelegatesChangeNothing ==
    [][last'.op \in Delegates =>
          /\ last'.rc = last'.real
          /\ UNCHANGED <<files, heap, pRealVfs, defaultPageSize, pAppData,
                         defaultVfs, openFiles>>
          /\ last'.op = "xDelete" =>
                \A f \in NormNames :
                   /\ RegisteredAs(f)' = RegisteredAs(f)
                   /\ ReportedPages(f)' = ReportedPages(f)]_vars

\* the real xDelete succeeded for a file whose tracker is in the registry
\* with dirty pages
C20_Witness ==
    /\ last.op = "xDelete"
    /\ last.rc = SQLITE_OK
    /\ RegisteredAs(StripSlash(last.name)) # {}
    /\ ReportedPages(StripSlash(last.name)) # {}

----------------------------------------------------------------------------
(* C21: every tracker that exists in a reachable state has a positive
   pageSize - the trackers that vfs_tracking_get_dirty_pages or
   vfs_tracking_reset_dirty created before any vfs_tracking_init, or after a
   shutdown, too - so that vfs_tracking_mark_dirty never divides by zero. *)
C21_PageSizePositive ==
    \A a \in Addr : heap[a] # FREED => heap[a].pageSize > 0

----------------------------------------------------------------------------
(* C22: a tracker, once created for a file name, stays in the registry
   until vfs_tracking_shutdown: no other call - not vfs_tracking_init, not
   xClose, not vfs_tracking_reset_dirty - removes it or makes it unreachable
   by its file name. *)
C22_TrackersStayUntilShutdown ==
    [][last'.op # "shutdown" =>
          \A k \in 1..Len(files) :
             /\ heap'[files[k]] # FREED
             /\ \E j \in 1..Len(files') : files'[j] = files[k]
             /\ FindTracker(files', heap', heap[files[k]].filename) = files[k]]_vars

----------------------------------------------------------------------------
(* C23: while a tracker exists its totalPages never decreases, whatever the
   call - a write, a truncate to a smaller size, vfs_tracking_reset_dirty,
   xClose, a reopening; vfs_tracking_reset_dirty leaves it unchanged; and it
   is always one more than the highest page ever marked on the tracker, 0
   when none was. Step by step: a new tracker has totalPages 0, and a call
   leaves totalPages as it was unless it makes dirty a page that was not
   (a page at or past totalPages never is dirty, so the highest page ever
   marked rises only then), and then totalPages is the larger of its old
   value and one more than the highest such page. *)
MaxOf(a, b) == IF a >= b THEN a ELSE b

Highest(pages) == CHOOSE m \in pages : \A n \in pages : n <= m

TotalPagesAfter(t, marked) ==
    IF marked = {} THEN t.totalPages
    ELSE MaxOf(t.totalPages, 1 + Highest(marked))

C23_TotalPagesIsHighWaterMark ==
    [][\A a \in Addr :
          /\ (heap[a] = FREED /\ heap'[a] # FREED) => heap'[a].totalPages = 0
          /\ (heap[a] # FREED /\ heap'[a] # FREED /\ heap'[a] # heap[a]) =>
                /\ heap'[a].totalPages >= heap[a].totalPages
                /\ last'.op = "reset_dirty" =>
                      heap'[a].totalPages = heap[a].totalPages
                /\ heap'[a].totalPages =
                      TotalPagesAfter(heap[a],
                                      DirtySet(heap'[a]) \ DirtySet(heap[a]))]_vars

\* after a reset of a file that extends past the first word of the bitmap,
\* a write to its first pages left totalPages where it was
C23_Witness ==
    /\ last.op = "xWrite"
    /\ last.rc = SQLITE_OK
    /\ \E p \in BagToSet(openFiles) :
          /\ p.opened = last.name
          /\ Tracked(p)
          /\ heap[p.pTracker].totalPages = FarPage + 1
          /\ DirtySet(heap[p.pTracker]) = {0, 1}

----------------------------------------------------------------------------
(* C24: in every reachable state and for every tracker, the bitmap is
   absent exactly when totalPages = 0; when present its storage holds at
   least totalPages bits (bitmapSize * 32 >= totalPages); and every bit of
   the storage at an index >= totalPages is unset, so that a later growth of
   totalPages never shows a page dirty that was not marked. *)
C24_BitmapCoversTotalPages ==
    \A a \in Addr : heap[a] # FREED =>
       LET t == heap[a]
       IN  /\ (t.dirtyBitmap = <<>>) <=> (t.totalPages = 0)
           /\ (t.dirtyBitmap = <<>>) <=> (t.bitmapSize = 0)
           /\ Len(t.dirtyBitmap) = t.bitmapSize
           /\ t.bitmapSize * WORD_BITS >= t.totalPages
           /\ \A w \in 1..t.bitmapSize : \A b \in t.dirtyBitmap[w] :
                 /\ b >= 0 /\ b < WORD_BITS
                 /\ (w - 1) * WORD_BITS + b < t.totalPages

\* a tracker whose storage is larger than totalPages requires, with a dirty
\* page in its last word
C24_Witness ==
    \E a \in Addr :
       /\ heap[a] # FREED
       /\ heap[a].bitmapSize > 1
       /\ heap[a].totalPages < heap[a].bitmapSize * WORD_BITS
       /\ heap[a].dirtyBitmap[heap[a].bitmapSize] # {}

----------------------------------------------------------------------------
(* C25, as claimed: marking is idempotent - for every tracker state, offset
   and length > 0, the tracker after vfs_tracking_mark_dirty(offset, length)
   applied twice equals the tracker after applying it once - and
   vfs_tracking_mark_dirty with a length <= 0 leaves the tracker unchanged.
   Stated of the trackers of the reachable states that have a page size to
   divide by. *)
Lengths == Amounts \cup {0 - 1}

C25_MarkTwiceIsOnce ==
    \A a \in Addr : (heap[a] # FREED /\ heap[a].pageSize > 0) =>
       \A ofst \in Offsets, len \in Lengths, first \in BOOLEAN, second \in BOOLEAN :
          LET once == vfs_tracking_mark_dirty(heap[a], ofst, len, first)
              twice == vfs_tracking_mark_dirty(once, ofst, len, second)
          IN  /\ len > 0 => twice = once
              /\ len <= 0 => once = heap[a]

(* C25, amended: the same when the growth of the bitmap, if the first
   application needs one, is granted; when it is refused the first
   application leaves the tracker exactly as it was. *)
C25_MarkTwiceIsOnceUnlessRefused ==
    [](\A a \in Addr : (heap[a] # FREED /\ heap[a].pageSize > 0) =>
          LET t == heap[a]
          IN  \A ofst \in Offsets :
                 /\ \A len \in {l \in Lengths : l > 0}, first \in BOOLEAN :
                       LET once == vfs_tracking_mark_dirty(t, ofst, len, first)
                       IN  IF first \/ ~GrowthNeeded(t, ofst, len)
                           THEN /\ \A second \in BOOLEAN :
                                     vfs_tracking_mark_dirty(once, ofst, len, second) = once
                                /\ PagesOfRange(ofst, len, t.pageSize)
                                      \subseteq DirtySet(once)
                           ELSE once = t
                 /\ \A len \in {l \in Lengths : l <= 0}, first \in BOOLEAN :
                       vfs_tracking_mark_dirty(t, ofst, len, first) = t)

\* a write left a tracker with dirty pages in its only word: marking its
\* first pages again is a second application, marking a far page needs a
\* growth
C25_Witness ==
    /\ last.op = "xWrite"
    /\ last.rc = SQLITE_OK
    /\ \E a \in Addr :
          /\ heap[a] # FREED
          /\ heap[a].pageSize > 0
          /\ heap[a].bitmapSize = 1
          /\ DirtySet(heap[a]) # {}
          /\ \E ofst \in Offsets :
                vfs_tracking_mark_dirty(heap[a], ofst, SpanLen, TRUE) = heap[a]
          /\ \E ofst \in Offsets : GrowthNeeded(heap[a], ofst, SpanLen)

----------------------------------------------------------------------------
(* C26: the normalization of a file name strips exactly one leading
   separator and nothing else, and names are matched by exact equality of
   the normalized strings: the tracker a name resolves to is named by the
   name less one leading separator, so "//d" resolves to the tracker named
   "/d", which is not the tracker of "d" and "/d"; names that differ in
   case, in a trailing separator or in a directory resolve to different
   trackers; and a tracker a call creates is named after the name passed. *)
Resolved(n) == vfs_tracking_get_file(n, NULL).ptr

C26_StripsOneSeparatorOnly ==
    /\ [](\A n1, n2 \in VariantNames :
             /\ Resolved(n1) # NULL => heap[Resolved(n1)].filename = StripSlash(n1)
             /\ (Resolved(n1) # NULL /\ Resolved(n2) # NULL)
                   => ((Resolved(n1) = Resolved(n2))
                          <=> (StripSlash(n1) = StripSlash(n2))))
    /\ [][last'.op \in {"get_dirty_pages", "reset_dirty", "xOpen"} =>
            \A a \in Addr :
               (heap[a] = FREED /\ heap'[a] # FREED)
               => /\ heap'[a].filename = StripSlash(last'.name)
                  /\ FindTracker(files', heap', StripSlash(last'.name)) = a]_vars

\* a call passed "//d" while the registry holds the tracker of "d": two
\* trackers, named "/d" and "d"
C26_Witness ==
    /\ last.name = <<"/", "/", "d">>
    /\ last.rc = SQLITE_OK
    /\ RegisteredAs(<<"/", "d">>) # {}
    /\ RegisteredAs(<<"d">>) # {}
    /\ RegisteredAs(<<"/", "d">>) # RegisteredAs(<<"d">>)

----------------------------------------------------------------------------
(* C27: in every reachable state, every open decorated handle that has a
   tracker reference refers to a tracker that is still in the registry and
   was not released, whatever the order of open, close, initialize and
   shutdown, shutdown with handles still open included. *)
C27_HandlesReferToLiveTrackers ==
    \A p \in BagToSet(openFiles) :
       p.pTracker # NULL =>
          /\ heap[p.pTracker] # FREED
          /\ \E k \in 1..Len(files) : files[k] = p.pTracker

----------------------------------------------------------------------------
(* C28: a call of initialize that returns a status other than OK leaves the
   registry uninitialized, so that a later initialize resolves the backend
   and attempts the registration again. *)
C28_FailedInitStaysUninitialized ==
    [][(last'.op = "init" /\ last'.rc # SQLITE_OK) => pRealVfs' = NULL_VFS]_vars

----------------------------------------------------------------------------
(* C29: trackers are isolated per normalized file name: a write, truncate or
   close through a handle opened as f, and a getDirtyPages or resetDirty of
   f, never changes the dirty set, totalPages, pageSize or isOpen of the
   registry's tracker of another name g; and the only thing getDirtyPages
   and resetDirty may do besides changing f's dirty bits is to insert a
   fresh empty tracker (totalPages 0, no bitmap, isOpen 0) for f when the
   registry has none. *)
IsFreshTracker(t, f) ==
    /\ t.filename = f
    /\ t.totalPages = 0
    /\ t.dirtyBitmap = <<>>
    /\ t.isOpen = 0

C29_TrackersAreIsolated ==
    [][(/\ last'.op \in {"xWrite", "xTruncate", "xClose", "get_dirty_pages",
                          "reset_dirty"}
        /\ last'.name # NULL_STR) =>
          LET f == StripSlash(last'.name)
          IN  /\ \A k \in 1..Len(files) :
                    heap[files[k]].filename # f =>
                       /\ heap'[files[k]] # FREED
                       /\ DirtySet(heap'[files[k]]) = DirtySet(heap[files[k]])
                       /\ heap'[files[k]].totalPages = heap[files[k]].totalPages
                       /\ heap'[files[k]].pageSize = heap[files[k]].pageSize
                       /\ heap'[files[k]].isOpen = heap[files[k]].isOpen
              /\ last'.op \in {"get_dirty_pages", "reset_dirty"} =>
                    \A a \in Addr :
                       \/ heap[a] # FREED /\ heap'[a] # FREED
                             /\ (heap'[a] # heap[a] => heap[a].filename = f)
                       \/ heap[a] = FREED /\ heap'[a] = FREED
                       \/ /\ heap[a] = FREED /\ heap'[a] # FREED
                          /\ IsFreshTracker(heap'[a], f)
                          /\ FindTracker(files, heap, f) = NULL]_vars

----------------------------------------------------------------------------
(* C30: for every offset >= 0 of 64 bits and every length > 0 of 32 bits,
   the 32-bit page indices startPage, endPage and requiredPages that
   markDirty computes are the exact values floor(offset / pageSize),
   floor((offset + length - 1) / pageSize) and endPage + 1, with no
   truncation or wrap modulo 2^32; startPage <= endPage; and every bit the
   marking loop sets lies inside the allocated bitmap (index below
   bitmapSize * 32). *)
Exact(u) == <<0, 0>> \o u

C30_PageIndicesAreExact ==
    (last.op = "mark_dirty" /\ last.out.set) =>
       LET c == last.out
           exactStart == WideDiv(c.offset, c.pageSize, 0)
           exactEnd == WideDiv(WideAdd(c.offset, c.amount - 1), c.pageSize, 0)
       IN  /\ Exact(c.startPage) = exactStart
           /\ Exact(c.endPage) = exactEnd
           /\ Exact(c.requiredPages) = WideAdd(exactEnd, 1)
           /\ ~DigitsLess(c.endPage, c.startPage)
           /\ DigitsLess(WideDiv(c.endPage, WORD_BITS, 0), c.bitmapSize)

====
